---- MODULE Spec2Model ----
(***************************************************************************)
(* Change-feed consumption and checkpointed bulk replication of            *)
(* couchdb-db-transform (lib/replicate.js, Replicator.prototype.init),     *)
(* together with the recovery record kept by lib/util/cloudantRepository.  *)
(*                                                                         *)
(* Sequence tokens are modelled as the integers 1..MaxSeq that the feed    *)
(* delivers in increasing order; a document is identified by the sequence  *)
(* of its change.  changes_per_batch is scaled down from 500 so that full  *)
(* batches occur within the bounds.  Time is abstracted: a timer callback  *)
(* may fire whenever the service runs, the armed interval is kept as data. *)
(***************************************************************************)
EXTENDS Integers, Sequences, FiniteSets, TLC

\* ------------------------------------------------------------------ bounds
MaxSeq == 4
MaxRuns == 2
MaxQueued == 4
MaxCalls == 3
MaxSaves == 3
MaxEvents == 1

\* ------------------------------------------------------- program constants
\* variant: the batch size constant is one too large
changes_per_batch_next == 2 + 1
changes_per_batch == 2
\* variant: two workers
concurrency_two == 1 + 1
concurrency == 1
inactivity_check_interval == 60 * 1000
max_inactivity_check_interval_delay_factor == 6

\* scaled down from 50 like changes_per_batch
max_queued_batches == 2

NoRec == -1

Kinds == {"doc", "deleted", "nodoc"}
Filters == {"none", "ignore_deleted", "faulty"}

\* inputs of the functions examined on their own.  JavaScript values are
\* written as their literals: "'true'" is the string, "true" the boolean
ChangeArgs == Kinds \cup {"null"}
ClientFilters == Filters \cup {"numeric", "no_return"}
Routines == {"none", "no_transformation", "add_timestamp", "throws"}
JSNull == [t |-> "null"]
JSUndefined == [t |-> "undefined"]
Doc(id, stamped) == [t |-> "object", id |-> id, timestamp |-> stamped]
Docs == {JSNull, JSUndefined} \cup {Doc(id, st) : id \in {"A", "B"}, st \in BOOLEAN}
EnvValues == {"undefined", "'true'", "'1'", "'0'", "'false'", "''", "'TRUE'"}
IsTrueArgs == EnvValues \cup {"true", "false", "1", "0", "null"}

VARIABLES
    recovery,                 \* last_update_seq of the persisted recovery record, NoRec if absent
    pc,                       \* "stopped" | "running"
    runs,                     \* number of service starts that followed the feed so far
    initCallbacks,            \* times initCallback was invoked for the last init call
    restart,                  \* Replicator.restart of the current run
    clientFilter,             \* CLIENT_FILTER of the current run
    recoveryInfo,             \* value passed to rr.on('ready') in the current run
    since,                    \* feedOptions.since
    feedPos,                  \* sequence of the last change the feed emitted
    changes,                  \* staging buffer: sequences of the buffered changes
    q,                        \* async.queue: batches waiting for a worker
    running,                  \* async.queue: batches a worker is processing
    last_applied_update_seq,  \* stats.target.last_applied_update_seq
    copied,                   \* stats.target.copied
    failed,                   \* stats.target.failed
    filtered,                 \* stats.filter.client.filtered
    delay_factor,             \* inactivity_check_interval_delay_factor
    flush_interval,           \* interval flush_timer is armed with (ms)
    errorEvents,              \* rr.saveErrorEvent calls of the current run
    last,                     \* the handler that ran last and what it reported
    failedDocs,               \* history: documents of this run the target did not confirm
    transportFailed,          \* history: documents of batches the bulk call failed for
    saves,                    \* history: recovery record writes of this run
    delivered,                \* history: sequences handed to the change handler in this run
    deletedDocs,              \* history: changes with the deletion flag held in buffer, queue or worker
    call,                     \* a function examined on its own: its name and arguments
    result,                   \* <<value>> once the function examined has returned
    queued,                   \* q.length() as the throttle check sees it
    feed_paused,              \* feed_paused of the throttle check
    feedState,                \* the follow feed itself: "active" | "paused" | "stopped"
    throttleLog,              \* history: feed.pause() / feed.resume() calls in order
    lastCheck,                \* history: what the last throttle check saw and called
    repositoryDb,             \* the repository database: its documents
    saving,                   \* saveRecoveryInfo: where the call is and what it works with
    saved,                    \* history: (sequence, timestamp) of the saves that succeeded
    events                    \* history: rr.save...Event calls of the feed handlers, in order

vars == <<recovery, pc, runs, initCallbacks, restart, clientFilter, recoveryInfo, since,
          feedPos, changes, q, running, last_applied_update_seq, copied, failed,
          filtered, delay_factor, flush_interval, errorEvents, last, failedDocs,
          transportFailed, saves, delivered, deletedDocs, call, result, queued,
          feed_paused, feedState, throttleLog, lastCheck, repositoryDb, saving,
          saved, events>>

\* ----------------------------------------------------------------- helpers
RECURSIVE Pow2(_)
Pow2(n) == IF n = 0 THEN 1 ELSE 2 * Pow2(n - 1)

Range(s) == {s[i] : i \in 1..Len(s)}

Max(S) == CHOOSE m \in S : \A x \in S : x <= m

Min2(a, b) == IF a < b THEN a ELSE b

\* variant: the last document taken from the buffer is lost
SpliceTakenShort(buf, n) == SubSeq(buf, 1, Min2(n, Len(buf)) - 1)
\* Array.prototype.splice(0, n): the removed prefix and what stays
SpliceTaken(buf, n) == SubSeq(buf, 1, Min2(n, Len(buf)))
SpliceLeft(buf, n) == SubSeq(buf, Min2(n, Len(buf)) + 1, Len(buf))

\* what the last handler was and what it handed to the batch callback
Op(name, cb) == [op |-> name, cb |-> cb]

\* what a throttle check saw (queue length, state of the feed) and called
Checked(n, fn, feed) == [q |-> n, call |-> fn, feed |-> feed]

\* saveRecoveryInfo is not running; err is what its callback got last
Idle(err) == [at |-> "idle", err |-> err]

\* ------------------------------------------------------------ pure helpers
\* the value a condition sees: what JavaScript treats as true
Truthy(v) == v \notin {"false", "0", "''", "null", "undefined"}

\* variant: the sample filter lets deleted documents pass
ClientFilterRoutineAdmitsDeleted(filt, kind) ==
    CASE filt = "ignore_deleted" -> "true"
      [] filt = "faulty"         -> IF kind = "deleted" THEN "throws" ELSE "true"
      [] filt = "numeric"        -> IF kind = "deleted" THEN "0" ELSE "1"
      [] filt = "no_return"      -> "undefined"

\* the client filter routine applied to a change that carries a doc:
\* sample_filter_functions/ignore_deleted_documents.js, a routine that reads a
\* property deleted documents lack, one that answers with numbers and one
\* that returns nothing
ClientFilterRoutine(filt, kind) ==
    CASE filt = "ignore_deleted" -> IF kind = "deleted" THEN "false" ELSE "true"
      [] filt = "faulty"         -> IF kind = "deleted" THEN "throws" ELSE "true"
      [] filt = "numeric"        -> IF kind = "deleted" THEN "0" ELSE "1"
      [] filt = "no_return"      -> "undefined"

\* the routine throws on this change
FilterThrows(filt, kind) ==
    /\ kind \notin {"null", "nodoc"}
    /\ filt # "none"
    /\ ClientFilterRoutine(filt, kind) = "throws"

\* variant: a change whose filter routine threw passes
CaughtAdmits(v) == IF v = "throws" THEN "true" ELSE v

\* the catch block around the routine: an exception makes the answer false
Caught(v) == IF v = "throws" THEN "false" ELSE v

\* variant: the routine's answer is coerced to a boolean
applyClientFilterCoerced(filt, kind) ==
    IF kind \in {"null", "nodoc"} THEN "false"
    ELSE IF filt = "none" THEN "true"
    ELSE IF Truthy(Caught(ClientFilterRoutine(filt, kind))) THEN "true" ELSE "false"

\* Filter.prototype.applyClientFilter: a missing change or one without doc is
\* rejected, every other change passes when no client filter is set, else the
\* routine's value is returned, false when it throws
applyClientFilter(filt, kind) ==
    IF kind \in {"null", "nodoc"} THEN "false"
    ELSE IF filt = "none" THEN "true"
    ELSE Caught(ClientFilterRoutine(filt, kind))

\* the transformation routine applied to a document:
\* sample_transform_functions/no_transformation.js, add_timestamp_property.js
Routine(routine, doc) ==
    IF routine = "add_timestamp" THEN [doc EXCEPT !.timestamp = TRUE] ELSE doc

\* variant: a missing document is reported as an error
transformRejectsMissing(routine, doc) ==
    IF doc.t = "object"
       THEN IF routine = "none" THEN [err |-> "null", doc |-> doc]
            ELSE IF routine = "throws" THEN [err |-> "error", doc |-> JSUndefined]
            ELSE [err |-> "null", doc |-> Routine(routine, doc)]
       ELSE [err |-> "error", doc |-> JSUndefined]

\* Transformer.prototype.transform: what the callback is invoked with
transform(routine, doc) ==
    IF doc.t = "object" /\ routine # "none"
       THEN IF routine = "throws" THEN [err |-> "error", doc |-> JSUndefined]
            ELSE [err |-> "null", doc |-> Routine(routine, doc)]
       ELSE [err |-> "null", doc |-> doc]

\* feed.on('change') for one change: whether last_change_received is stamped,
\* whether the change goes on to the transformation, whether it is counted as
\* filtered
onChange(filt, kind) ==
    IF Truthy(applyClientFilter(filt, kind))
       THEN [stamped |-> TRUE, admitted |-> TRUE, filtered |-> FALSE]
       ELSE [stamped |-> FALSE, admitted |-> FALSE, filtered |-> TRUE]

\* util.isTrue: value = value || false, then compared with true, 1 and '1'
isTrue(value) ==
    LET v == IF Truthy(value) THEN value ELSE "false"
    IN v \in {"true", "1", "'1'"}

\* variant: the sequence of the first stored document is kept
LastSuccessSeqFirst(seqs, okIdx) ==
    IF okIdx = {} THEN NoRec ELSE seqs[CHOOSE i \in okIdx : \A j \in okIdx : i <= j]

\* data.forEach of the worker: the sequence of the last result carrying id and
\* rev, in array order; null (NoRec) when no result does
LastSuccessSeq(seqs, okIdx) ==
    IF okIdx = {} THEN NoRec ELSE seqs[Max(okIdx)]

\* variant: the feed is started one past the loaded sequence
StartSequenceNext(flag, info) ==
    IF (~flag) /\ info # NoRec THEN info + 1 ELSE 0

\* update_start_sequence: the loaded recovery record is used unless restart
StartSequence(flag, info) ==
    IF (~flag) /\ info # NoRec THEN info ELSE 0

\* variant: the queue counts as idle while a worker is still active
QIdleLax == q = <<>>

\* q.idle(): nothing waiting and no worker active
QIdle == q = <<>> /\ running = {}

\* variant: the task pushed last is handed out first
DequeueLast(tasks) == tasks[Len(tasks)]

\* the task async.queue hands to the next free worker
Dequeue(tasks) == Head(tasks)

\* variant: the worker count is compared with <= instead of <
WorkerFreeLax(active) == Cardinality(active) <= concurrency

\* a worker may start while fewer than <concurrency> are active
WorkerFree(active) == Cardinality(active) < concurrency

\* ------------------------------------------------------------------- Init
Init ==
    /\ recovery = NoRec
    /\ pc = "stopped"
    /\ runs = 0
    /\ initCallbacks = 0
    /\ restart = FALSE
    /\ clientFilter = "none"
    /\ recoveryInfo = NoRec
    /\ since = 0
    /\ feedPos = 0
    /\ changes = <<>>
    /\ q = <<>>
    /\ running = {}
    /\ last_applied_update_seq = 0
    /\ copied = 0
    /\ failed = 0
    /\ filtered = 0
    /\ delay_factor = 0
    /\ flush_interval = inactivity_check_interval
    /\ errorEvents = 0
    /\ last = Op("none", "none")
    /\ failedDocs = {}
    /\ transportFailed = {}
    /\ saves = 0
    /\ delivered = {}
    /\ deletedDocs = {}
    /\ call = [fn |-> "none"]
    /\ result = <<>>
    /\ queued = 0
    /\ feed_paused = FALSE
    /\ feedState = "active"
    /\ throttleLog = <<>>
    /\ lastCheck = Checked(0, "none", "active")
    /\ repositoryDb = {}
    /\ saving = Idle("none")
    /\ saved = <<>>
    /\ events = <<>>

memory == <<restart, clientFilter, recoveryInfo, since, feedPos, changes, q, running,
            last_applied_update_seq, copied, failed, filtered, delay_factor,
            flush_interval, errorEvents, failedDocs, saves, delivered, deletedDocs>>
config == <<restart, clientFilter, recoveryInfo, since>>
counters == <<copied, failed, filtered>>
timer == <<delay_factor, flush_interval>>
history == <<failedDocs, transportFailed, saves, delivered, deletedDocs>>
throttle == <<queued, feed_paused, feedState, throttleLog, lastCheck>>
repository == <<repositoryDb, saving, saved, events>>
pure == <<call, result, throttle, repository>>

\* ------------------------------------------------------------ service start
\* variant: the restart flag is not looked at
StartIgnoresRestart(flag, filt, info) ==
    /\ pc = "stopped"
    /\ runs < MaxRuns
    /\ info \in {recovery, NoRec}
    /\ pc' = "running"
    /\ runs' = runs + 1
    /\ initCallbacks' = 1
    /\ restart' = flag
    /\ clientFilter' = filt
    /\ recoveryInfo' = info
    /\ last_applied_update_seq' = StartSequence(FALSE, info)
    /\ since' = StartSequence(FALSE, info)
    /\ feedPos' = StartSequence(FALSE, info)
    /\ changes' = <<>>
    /\ q' = <<>>
    /\ running' = {}
    /\ copied' = 0
    /\ failed' = 0
    /\ filtered' = 0
    /\ delay_factor' = 0
    /\ flush_interval' = inactivity_check_interval * Pow2(0)
    /\ errorEvents' = 0
    /\ last' = Op("start", "none")
    /\ failedDocs' = {}
    /\ transportFailed' = {}
    /\ saves' = 0
    /\ delivered' = {}
    /\ deletedDocs' = {}
    /\ UNCHANGED <<recovery, pure>>

\* Replicator.prototype.init up to feed.follow() and the first flush_timer:
\* the repository emits 'ready' with the recovery record, or with none when
\* the record is absent or could not be read
Start(flag, filt, info) ==
    /\ pc = "stopped"
    /\ runs < MaxRuns
    /\ info \in {recovery, NoRec}
    /\ pc' = "running"
    /\ runs' = runs + 1
    /\ initCallbacks' = 1
    /\ restart' = flag
    /\ clientFilter' = filt
    /\ recoveryInfo' = info
    /\ last_applied_update_seq' = StartSequence(flag, info)
    /\ since' = StartSequence(flag, info)
    /\ feedPos' = StartSequence(flag, info)
    /\ changes' = <<>>
    /\ q' = <<>>
    /\ running' = {}
    /\ copied' = 0
    /\ failed' = 0
    /\ filtered' = 0
    /\ delay_factor' = 0
    /\ flush_interval' = inactivity_check_interval * Pow2(0)
    /\ errorEvents' = 0
    /\ last' = Op("start", "none")
    /\ failedDocs' = {}
    /\ transportFailed' = {}
    /\ saves' = 0
    /\ delivered' = {}
    /\ deletedDocs' = {}
    /\ UNCHANGED <<recovery, pure>>

\* what init can find wrong before it follows the feed
InitErrors == {"source_info", "target_info", "source_db", "target_db",
               "repository", "transformer", "filter"}

\* variant: the error is reported but init goes on to follow the feed
StartFailsAndFollows(cause) ==
    /\ pc = "stopped"
    /\ pc' = "running"
    /\ initCallbacks' = 1
    /\ last' = Op("init_error", cause)
    /\ UNCHANGED <<recovery, runs, memory, transportFailed, pure>>

\* init returns initCallback(err) at the first problem it finds: connection
\* information, source or target database, repository, transformation
\* routine, filters; app.js then exits and the feed was never followed
StartFails(cause) ==
    /\ pc = "stopped"
    /\ pc' = "stopped"
    /\ initCallbacks' = 1
    /\ last' = Op("init_error", cause)
    /\ UNCHANGED <<recovery, runs, memory, transportFailed, pure>>

\* the process ends; everything it held in memory is gone
Halt(name) ==
    /\ pc' = "stopped"
    /\ restart' = FALSE
    /\ clientFilter' = "none"
    /\ recoveryInfo' = NoRec
    /\ since' = 0
    /\ feedPos' = 0
    /\ changes' = <<>>
    /\ q' = <<>>
    /\ running' = {}
    /\ last_applied_update_seq' = 0
    /\ copied' = 0
    /\ failed' = 0
    /\ filtered' = 0
    /\ delay_factor' = 0
    /\ flush_interval' = inactivity_check_interval
    /\ errorEvents' = 0
    /\ failedDocs' = {}
    /\ saves' = 0
    /\ delivered' = {}
    /\ deletedDocs' = {}
    /\ last' = Op(name, "none")
    /\ UNCHANGED <<recovery, runs, transportFailed, pure>>

\* the operator stops the service, or it crashes
Stop ==
    /\ pc = "running"
    /\ Halt("stop")
    /\ UNCHANGED initCallbacks

\* ------------------------------------------------------- feed.on('change')
\* variant: the change is put in front of the buffer
ChangeAdmittedInFront(kind) ==
    /\ pc = "running"
    /\ feedPos < MaxSeq
    /\ Truthy(applyClientFilter(clientFilter, kind))
    /\ LET seq == feedPos + 1
           buf == <<seq>> \o changes
       IN /\ feedPos' = seq
          /\ delivered' = delivered \cup {seq}
          /\ deletedDocs' = IF kind = "deleted" THEN deletedDocs \cup {seq}
                                                ELSE deletedDocs
          /\ IF Len(buf) >= changes_per_batch
                THEN /\ q' = Append(q, SpliceTaken(buf, changes_per_batch))
                     /\ changes' = SpliceLeft(buf, changes_per_batch)
                     /\ last' = Op("change_push", "none")
                ELSE /\ q' = q
                     /\ changes' = buf
                     /\ last' = Op("change", "none")
    /\ UNCHANGED <<recovery, pc, runs, initCallbacks, config, pure, running, last_applied_update_seq,
                   counters, timer, errorEvents, failedDocs, transportFailed, saves>>

\* an admitted change whose transformation succeeds is buffered; a buffer
\* that reached changes_per_batch is spliced off and pushed to the queue
ChangeAdmitted(kind) ==
    /\ pc = "running"
    /\ feedPos < MaxSeq
    /\ Truthy(applyClientFilter(clientFilter, kind))
    /\ LET seq == feedPos + 1
           buf == Append(changes, seq)
       IN /\ feedPos' = seq
          /\ delivered' = delivered \cup {seq}
          /\ deletedDocs' = IF kind = "deleted" THEN deletedDocs \cup {seq}
                                                ELSE deletedDocs
          /\ IF Len(buf) >= changes_per_batch
                THEN /\ q' = Append(q, SpliceTaken(buf, changes_per_batch))
                     /\ changes' = SpliceLeft(buf, changes_per_batch)
                     /\ last' = Op("change_push", "none")
                ELSE /\ q' = q
                     /\ changes' = buf
                     /\ last' = Op("change", "none")
    /\ UNCHANGED <<recovery, pc, runs, initCallbacks, config, pure, running, last_applied_update_seq,
                   counters, timer, errorEvents, failedDocs, transportFailed, saves>>

\* variant: the handler drops the failing change and goes on
ChangeTransformErrorIgnored(kind) ==
    /\ pc = "running"
    /\ feedPos < MaxSeq
    /\ Truthy(applyClientFilter(clientFilter, kind))
    /\ feedPos' = feedPos + 1
    /\ last' = Op("transform_error", "none")
    /\ UNCHANGED <<recovery, pc, runs, initCallbacks, config, pure, changes, q, running,
                   last_applied_update_seq, counters, timer, errorEvents, history>>

\* the transformation routine throws: transform() reports the error, the
\* handler passes it to initCallback and app.js exits the process
ChangeTransformError(kind) ==
    /\ pc = "running"
    /\ feedPos < MaxSeq
    /\ Truthy(applyClientFilter(clientFilter, kind))
    /\ Halt("transform_error")
    /\ initCallbacks' = initCallbacks + 1

\* variant: a rejected change is not counted
ChangeRejectedUncounted(kind) ==
    /\ pc = "running"
    /\ feedPos < MaxSeq
    /\ ~Truthy(applyClientFilter(clientFilter, kind))
    /\ IF kind = "nodoc"
          THEN Halt("change_nodoc") /\ UNCHANGED initCallbacks
          ELSE /\ feedPos' = feedPos + 1
               /\ delivered' = delivered \cup {feedPos + 1}
               /\ filtered' = filtered
               /\ last' = Op("change_rejected",
                             IF FilterThrows(clientFilter, kind) THEN "filter_error"
                                                                 ELSE "none")
               /\ UNCHANGED <<recovery, pc, runs, initCallbacks, config, pure, changes, q, running,
                              last_applied_update_seq, copied, failed, timer,
                              errorEvents, failedDocs, transportFailed, saves,
                              deletedDocs>>

\* a rejected change is counted, also when it is rejected because the filter
\* routine threw; the debug line then reads change.doc._id, which throws for
\* a change without doc and ends the process
ChangeRejected(kind) ==
    /\ pc = "running"
    /\ feedPos < MaxSeq
    /\ ~Truthy(applyClientFilter(clientFilter, kind))
    /\ IF kind = "nodoc"
          THEN Halt("change_nodoc") /\ UNCHANGED initCallbacks
          ELSE /\ feedPos' = feedPos + 1
               /\ delivered' = delivered \cup {feedPos + 1}
               /\ filtered' = filtered + 1
               /\ last' = Op("change_rejected",
                             IF FilterThrows(clientFilter, kind) THEN "filter_error"
                                                                 ELSE "none")
               /\ UNCHANGED <<recovery, pc, runs, initCallbacks, config, pure, changes, q, running,
                              last_applied_update_seq, copied, failed, timer,
                              errorEvents, failedDocs, transportFailed, saves,
                              deletedDocs>>

\* ------------------------------------------------------------------ flush
\* variant: a busy queue resets the delay factor also when the buffer is empty
FlushEmptyResetsWhenBusy ==
    /\ pc = "running"
    /\ Len(changes) = 0
    /\ IF QIdle
          THEN IF delay_factor <= max_inactivity_check_interval_delay_factor
                  THEN /\ delay_factor' = delay_factor + 1
                       /\ flush_interval' = inactivity_check_interval * Pow2(delay_factor + 1)
                       /\ last' = Op("flush_backoff", "none")
                  ELSE /\ UNCHANGED timer
                       /\ last' = Op("flush_empty", "none")
          ELSE /\ delay_factor' = 0
               /\ flush_interval' = inactivity_check_interval * Pow2(0)
               /\ last' = Op("flush_empty", "none")
    /\ UNCHANGED <<recovery, pc, runs, initCallbacks, config, pure, feedPos, changes, q, running,
                   last_applied_update_seq, counters, errorEvents, history>>

\* the timer finds the buffer empty: while the queue is idle and the delay
\* factor is not above its maximum, the factor grows and the timer is rearmed
FlushEmpty ==
    /\ pc = "running"
    /\ Len(changes) = 0
    /\ IF QIdle /\ delay_factor <= max_inactivity_check_interval_delay_factor
          THEN /\ delay_factor' = delay_factor + 1
               /\ flush_interval' = inactivity_check_interval * Pow2(delay_factor + 1)
               /\ last' = Op("flush_backoff", "none")
          ELSE /\ UNCHANGED timer
               /\ last' = Op("flush_empty", "none")
    /\ UNCHANGED <<recovery, pc, runs, initCallbacks, config, pure, feedPos, changes, q, running,
                   last_applied_update_seq, counters, errorEvents, history>>

\* variant: the timer pushes the buffer only once it is full
FlushBufferWhenFull ==
    /\ pc = "running"
    /\ Len(changes) # 0
    /\ IF QIdle /\ Len(changes) >= changes_per_batch
          THEN /\ q' = Append(q, SpliceTaken(changes, changes_per_batch))
               /\ changes' = SpliceLeft(changes, changes_per_batch)
               /\ last' = Op("flush_push", "none")
          ELSE /\ UNCHANGED <<q, changes>>
               /\ last' = Op("flush_busy", "none")
    /\ delay_factor' = 0
    /\ flush_interval' = inactivity_check_interval * Pow2(0)
    /\ UNCHANGED <<recovery, pc, runs, initCallbacks, config, pure, feedPos, running,
                   last_applied_update_seq, counters, errorEvents, history>>

\* the timer finds documents in the buffer: they are pushed when the queue is
\* idle; the delay factor is reset and the timer rearmed at the base interval
FlushBuffer ==
    /\ pc = "running"
    /\ Len(changes) # 0
    /\ IF QIdle
          THEN /\ q' = Append(q, SpliceTaken(changes, changes_per_batch))
               /\ changes' = SpliceLeft(changes, changes_per_batch)
               /\ last' = Op("flush_push", "none")
          ELSE /\ UNCHANGED <<q, changes>>
               /\ last' = Op("flush_busy", "none")
    /\ delay_factor' = 0
    /\ flush_interval' = inactivity_check_interval * Pow2(0)
    /\ UNCHANGED <<recovery, pc, runs, initCallbacks, config, pure, feedPos, running,
                   last_applied_update_seq, counters, errorEvents, history>>

\* ------------------------------------------------------- async.queue worker
Task(batch, phase, saveSeq) == [changes |-> batch, phase |-> phase, saveSeq |-> saveSeq]

\* the queue without the batch a worker took
Remove(tasks, b) == SelectSeq(tasks, LAMBDA x : x # b)

\* variant: after a reported error no further batch is taken
WorkerStartUnlessError ==
    /\ pc = "running"
    /\ q # <<>>
    /\ WorkerFree(running)
    /\ errorEvents = 0
    /\ running' = running \cup {Task(Dequeue(q), "bulk", 0)}
    /\ q' = Remove(q, Dequeue(q))
    /\ last' = Op("worker_start", "none")
    /\ UNCHANGED <<recovery, pc, runs, initCallbacks, config, pure, feedPos, changes,
                   last_applied_update_seq, counters, timer, errorEvents, history>>

\* a free worker takes the next batch and calls targetDb.bulk
WorkerStart ==
    /\ pc = "running"
    /\ q # <<>>
    /\ WorkerFree(running)
    /\ running' = running \cup {Task(Dequeue(q), "bulk", 0)}
    /\ q' = Remove(q, Dequeue(q))
    /\ last' = Op("worker_start", "none")
    /\ UNCHANGED <<recovery, pc, runs, initCallbacks, config, pure, feedPos, changes,
                   last_applied_update_seq, counters, timer, errorEvents, history>>

\* variant: a failed bulk call counts one failure instead of the batch size
BulkErrorCountsOne(t) ==
    /\ pc = "running"
    /\ t \in running /\ t.phase = "bulk"
    /\ failed' = failed + 1
    /\ errorEvents' = errorEvents + 1
    /\ running' = running \ {t}
    /\ deletedDocs' = deletedDocs \ Range(t.changes)
    /\ failedDocs' = failedDocs \cup Range(t.changes)
    /\ transportFailed' = transportFailed \cup Range(t.changes)
    /\ last' = Op("bulk_error", "error")
    /\ UNCHANGED <<recovery, pc, runs, initCallbacks, config, pure, feedPos, changes, q,
                   last_applied_update_seq, copied, filtered, timer, saves, delivered>>

\* targetDb.bulk returns an error for the whole call
BulkError(t) ==
    /\ pc = "running"
    /\ t \in running /\ t.phase = "bulk"
    /\ failed' = failed + Len(t.changes)
    /\ errorEvents' = errorEvents + 1
    /\ running' = running \ {t}
    /\ deletedDocs' = deletedDocs \ Range(t.changes)
    /\ failedDocs' = failedDocs \cup Range(t.changes)
    /\ transportFailed' = transportFailed \cup Range(t.changes)
    /\ last' = Op("bulk_error", "error")
    /\ UNCHANGED <<recovery, pc, runs, initCallbacks, config, pure, feedPos, changes, q,
                   last_applied_update_seq, copied, filtered, timer, saves, delivered>>

\* variant: the errors.length test is missing, so a batch with failed documents
\* falls through to the recovery record update
BulkPartialFallThrough(t, okIdx) ==
    /\ pc = "running"
    /\ t \in running /\ t.phase = "bulk"
    /\ okIdx \subseteq 1..Len(t.changes) /\ okIdx # 1..Len(t.changes)
    /\ failedDocs' = failedDocs \cup {t.changes[i] : i \in (1..Len(t.changes)) \ okIdx}
    /\ copied' = copied + Cardinality(okIdx)
    /\ failed' = failed + (Len(t.changes) - Cardinality(okIdx))
    /\ errorEvents' = errorEvents + 1
    /\ last_applied_update_seq' = LastSuccessSeq(t.changes, okIdx)
    /\ running' = (running \ {t}) \cup {Task(t.changes, "get", LastSuccessSeq(t.changes, okIdx))}
    /\ last' = Op("bulk_partial", "error")
    /\ UNCHANGED <<recovery, pc, runs, initCallbacks, config, pure, feedPos, changes, q,
                   filtered, timer, transportFailed, saves, delivered, deletedDocs>>

\* targetDb.bulk returns one result per document, at least one without id/rev
BulkPartial(t, okIdx) ==
    /\ pc = "running"
    /\ t \in running /\ t.phase = "bulk"
    /\ okIdx \subseteq 1..Len(t.changes) /\ okIdx # 1..Len(t.changes)
    /\ failedDocs' = failedDocs \cup {t.changes[i] : i \in (1..Len(t.changes)) \ okIdx}
    /\ copied' = copied + Cardinality(okIdx)
    /\ failed' = failed + (Len(t.changes) - Cardinality(okIdx))
    /\ errorEvents' = errorEvents + 1
    /\ running' = running \ {t}
    /\ deletedDocs' = deletedDocs \ Range(t.changes)
    /\ last' = Op("bulk_partial", "error")
    /\ UNCHANGED <<recovery, pc, runs, initCallbacks, config, pure, feedPos, changes, q,
                   last_applied_update_seq, filtered, timer, transportFailed,
                   saves, delivered>>

\* variant: a stored batch counts as one copied document
BulkSuccessCountsBatch(t) ==
    /\ pc = "running"
    /\ t \in running /\ t.phase = "bulk"
    /\ LET all == 1..Len(t.changes)
           seq == LastSuccessSeq(t.changes, all)
       IN /\ copied' = copied + 1
          /\ last_applied_update_seq' = seq
          /\ running' = (running \ {t}) \cup {Task(t.changes, "get", seq)}
    /\ last' = Op("bulk_success", "none")
    /\ UNCHANGED <<recovery, pc, runs, initCallbacks, config, pure, feedPos, changes, q, failed, filtered,
                   timer, errorEvents, history>>

\* every document was stored: the last sequence becomes the last applied one
\* and saveRecoveryInfo starts by reading the recovery record
BulkSuccess(t) ==
    /\ pc = "running"
    /\ t \in running /\ t.phase = "bulk"
    /\ LET all == 1..Len(t.changes)
           seq == LastSuccessSeq(t.changes, all)
       IN /\ copied' = copied + Cardinality(all)
          /\ last_applied_update_seq' = seq
          /\ running' = (running \ {t}) \cup {Task(t.changes, "get", seq)}
    /\ last' = Op("bulk_success", "none")
    /\ UNCHANGED <<recovery, pc, runs, initCallbacks, config, pure, feedPos, changes, q, failed, filtered,
                   timer, errorEvents, history>>

\* variant: a failed read takes the last applied sequence back
SaveReadErrorRollsBack(t) ==
    /\ pc = "running"
    /\ t \in running /\ t.phase = "get"
    /\ running' = running \ {t}
    /\ deletedDocs' = deletedDocs \ Range(t.changes)
    /\ last_applied_update_seq' = IF saves > 0 THEN recovery ELSE since
    /\ last' = Op("save_read_error", "error")
    /\ UNCHANGED <<recovery, pc, runs, initCallbacks, config, pure, feedPos, changes, q,
                   counters, timer, errorEvents, failedDocs,
                   transportFailed, saves, delivered>>

\* saveRecoveryInfo: repositoryDb.get fails with an error other than 404
SaveReadError(t) ==
    /\ pc = "running"
    /\ t \in running /\ t.phase = "get"
    /\ running' = running \ {t}
    /\ deletedDocs' = deletedDocs \ Range(t.changes)
    /\ last' = Op("save_read_error", "error")
    /\ UNCHANGED <<recovery, pc, runs, initCallbacks, config, pure, feedPos, changes, q,
                   last_applied_update_seq, counters, timer, errorEvents, failedDocs,
                   transportFailed, saves, delivered>>

\* saveRecoveryInfo: the record was read (or is absent) and the insert is sent
SaveRead(t) ==
    /\ pc = "running"
    /\ t \in running /\ t.phase = "get"
    /\ running' = (running \ {t}) \cup {Task(t.changes, "insert", t.saveSeq)}
    /\ last' = Op("save_read", "none")
    /\ UNCHANGED <<recovery, pc, runs, initCallbacks, config, pure, feedPos, changes, q,
                   last_applied_update_seq, counters, timer, errorEvents, history>>

\* variant: the worker drops the error of a failed insert
SaveInsertErrorSwallowed(t) ==
    /\ pc = "running"
    /\ t \in running /\ t.phase = "insert"
    /\ running' = running \ {t}
    /\ deletedDocs' = deletedDocs \ Range(t.changes)
    /\ last' = Op("save_insert_error", "ok")
    /\ UNCHANGED <<recovery, pc, runs, initCallbacks, config, pure, feedPos, changes, q,
                   last_applied_update_seq, counters, timer, errorEvents, failedDocs,
                   transportFailed, saves, delivered>>

\* saveRecoveryInfo: the insert fails (transport error or revision conflict)
SaveInsertError(t) ==
    /\ pc = "running"
    /\ t \in running /\ t.phase = "insert"
    /\ running' = running \ {t}
    /\ deletedDocs' = deletedDocs \ Range(t.changes)
    /\ last' = Op("save_insert_error", "error")
    /\ UNCHANGED <<recovery, pc, runs, initCallbacks, config, pure, feedPos, changes, q,
                   last_applied_update_seq, counters, timer, errorEvents, failedDocs,
                   transportFailed, saves, delivered>>

\* variant: the record keeps its sequence when that is the higher one
SaveInsertKeepsHigher(t) ==
    /\ pc = "running"
    /\ t \in running /\ t.phase = "insert"
    /\ recovery' = Max({recovery, t.saveSeq})
    /\ saves' = saves + 1
    /\ running' = running \ {t}
    /\ deletedDocs' = deletedDocs \ Range(t.changes)
    /\ last' = Op("save_insert", "ok")
    /\ UNCHANGED <<pc, runs, initCallbacks, config, pure, feedPos, changes, q,
                   last_applied_update_seq, counters, timer, errorEvents,
                   failedDocs, transportFailed, delivered>>

\* saveRecoveryInfo: the record now holds the sequence handed to the call
SaveInsert(t) ==
    /\ pc = "running"
    /\ t \in running /\ t.phase = "insert"
    /\ recovery' = t.saveSeq
    /\ saves' = saves + 1
    /\ running' = running \ {t}
    /\ deletedDocs' = deletedDocs \ Range(t.changes)
    /\ last' = Op("save_insert", "ok")
    /\ UNCHANGED <<pc, runs, initCallbacks, config, pure, feedPos, changes, q,
                   last_applied_update_seq, counters, timer, errorEvents,
                   failedDocs, transportFailed, delivered>>

\* ------------------------------------------------------------------- Next
Next ==
    \/ \E flag \in BOOLEAN, filt \in Filters, info \in {recovery, NoRec} : Start(flag, filt, info)
    \/ \E cause \in InitErrors : StartFails(cause)
    \/ Stop
    \/ \E kind \in Kinds : ChangeAdmitted(kind)
    \/ \E kind \in Kinds : ChangeTransformError(kind)
    \/ \E kind \in Kinds : ChangeRejected(kind)
    \/ FlushEmpty
    \/ FlushBuffer
    \/ WorkerStart
    \/ \E t \in running : BulkError(t)
    \/ \E t \in running : \E okIdx \in SUBSET (1..Len(t.changes)) : BulkPartial(t, okIdx)
    \/ \E t \in running : BulkSuccess(t)
    \/ \E t \in running : SaveReadError(t)
    \/ \E t \in running : SaveRead(t)
    \/ \E t \in running : SaveInsertError(t)
    \/ \E t \in running : SaveInsert(t)

Spec == Init /\ [][Next]_vars

\* --------------------------------------------------------------- scheduling
\* the callback of targetDb.bulk is invoked
BulkCompletes ==
    \E t \in running :
        \/ BulkError(t)
        \/ \E okIdx \in SUBSET (1..Len(t.changes)) : BulkPartial(t, okIdx)
        \/ BulkSuccess(t)

\* the callbacks of saveRecoveryInfo's get and insert are invoked
SaveCompletes ==
    \E t \in running :
        SaveReadError(t) \/ SaveRead(t) \/ SaveInsertError(t) \/ SaveInsert(t)

\* setInterval keeps calling flush while the process lives, async.queue starts
\* a waiting task once a worker is free, and every request to the target and
\* to the repository is answered
Fairness ==
    /\ WF_vars(FlushBuffer)
    /\ WF_vars(WorkerStart)
    /\ WF_vars(BulkCompletes)
    /\ WF_vars(SaveCompletes)

\* one life of the process, from its start to its end
FairNext ==
    \/ \E flag \in BOOLEAN, filt \in Filters, info \in {recovery, NoRec} :
           runs = 0 /\ Start(flag, filt, info)
    \/ Stop
    \/ \E kind \in Kinds : ChangeAdmitted(kind)
    \/ \E kind \in Kinds : ChangeTransformError(kind)
    \/ \E kind \in Kinds : ChangeRejected(kind)
    \/ FlushEmpty
    \/ FlushBuffer
    \/ WorkerStart
    \/ BulkCompletes
    \/ SaveCompletes

FairSpec == Init /\ [][FairNext]_vars /\ Fairness

\* the service's own variables, untouched while a function is examined
service == <<recovery, pc, runs, initCallbacks, config, feedPos, changes, q, running,
             last_applied_update_seq, counters, timer, errorEvents, last, history>>

\* ------------------------------------------------------------- throttling
\* the change handler (or the flush timer) pushes a batch; a feed that is
\* paused or has stopped delivers no change
PushBatch ==
    /\ feedState = "active"
    /\ queued < MaxQueued
    /\ queued' = queued + 1
    /\ UNCHANGED <<service, repository, call, result, feed_paused, feedState, throttleLog, lastCheck>>

\* a worker takes the next waiting batch
TakeBatch ==
    /\ queued > 0
    /\ queued' = queued - 1
    /\ UNCHANGED <<service, repository, call, result, feed_paused, feedState, throttleLog, lastCheck>>

\* what a feed handler passes to the repository: the function it calls and
\* the type of the event
Recorded(fn, type) == [fn |-> fn, type |-> type]

\* the feed dies and emits 'stop'; the handler records the event, the
\* interval of the throttle check stays armed
FeedStops ==
    /\ feedState # "stopped"
    /\ feedState' = "stopped"
    /\ events' = Append(events, Recorded("saveInfoEvent", "source_feed_stopped"))
    /\ UNCHANGED <<service, repositoryDb, saving, saved, call, result, queued,
                   feed_paused, throttleLog, lastCheck>>

\* variant: the feed is paused from the threshold on
CheckQueueSizeFromThreshold ==
    /\ Len(throttleLog) < MaxCalls
    /\ IF queued >= max_queued_batches
          THEN IF ~feed_paused
                  THEN /\ feed_paused' = TRUE
                       /\ feedState' = IF feedState = "stopped" THEN "stopped" ELSE "paused"
                       /\ throttleLog' = Append(throttleLog, "pause")
                       /\ lastCheck' = Checked(queued, "pause", feedState)
                  ELSE /\ lastCheck' = Checked(queued, "none", feedState)
                       /\ UNCHANGED <<feed_paused, feedState, throttleLog>>
          ELSE IF feed_paused
                  THEN /\ feed_paused' = FALSE
                       /\ feedState' = IF feedState = "stopped" THEN "stopped" ELSE "active"
                       /\ throttleLog' = Append(throttleLog, "resume")
                       /\ lastCheck' = Checked(queued, "resume", feedState)
                  ELSE /\ lastCheck' = Checked(queued, "none", feedState)
                       /\ UNCHANGED <<feed_paused, feedState, throttleLog>>
    /\ UNCHANGED <<service, repository, call, result, queued>>

\* the setInterval callback: pause once when more than max_queued_batches
\* wait, resume once when no more than that wait
CheckQueueSize ==
    /\ Len(throttleLog) < MaxCalls
    /\ IF queued > max_queued_batches
          THEN IF ~feed_paused
                  THEN /\ feed_paused' = TRUE
                       /\ feedState' = IF feedState = "stopped" THEN "stopped" ELSE "paused"
                       /\ throttleLog' = Append(throttleLog, "pause")
                       /\ lastCheck' = Checked(queued, "pause", feedState)
                  ELSE /\ lastCheck' = Checked(queued, "none", feedState)
                       /\ UNCHANGED <<feed_paused, feedState, throttleLog>>
          ELSE IF feed_paused
                  THEN /\ feed_paused' = FALSE
                       /\ feedState' = IF feedState = "stopped" THEN "stopped" ELSE "active"
                       /\ throttleLog' = Append(throttleLog, "resume")
                       /\ lastCheck' = Checked(queued, "resume", feedState)
                  ELSE /\ lastCheck' = Checked(queued, "none", feedState)
                       /\ UNCHANGED <<feed_paused, feedState, throttleLog>>
    /\ UNCHANGED <<service, repository, call, result, queued>>

ThrottleNext ==
    \/ PushBatch
    \/ TakeBatch
    \/ FeedStops
    \/ CheckQueueSize

ThrottleSpec == Init /\ [][ThrottleNext]_vars

\* ------------------------------------------------------------ feed events
\* the events of the feed that have a handler besides 'change' and 'stop'
FeedEvents == {"error", "inactive", "timeout", "retry"}

\* the call each of these handlers makes
FeedEventRecord(event) ==
    CASE event = "error"    -> Recorded("saveErrorEvent", "source_feed_error")
      [] event = "inactive" -> Recorded("saveWarningEvent", "source_feed_inactive")
      [] event = "timeout"  -> Recorded("saveErrorEvent", "source_feed_timeout")
      [] event = "retry"    -> Recorded("saveInfoEvent", "source_feed_retry")

\* variant: the handler records the event and ends the process
FeedEventFatal(event) ==
    /\ pc = "running"
    /\ feedState # "stopped"
    /\ Len(events) < MaxEvents
    /\ events' = Append(events, FeedEventRecord(event))
    /\ pc' = "stopped"
    /\ last' = Op("feed_" \o event, "none")
    /\ UNCHANGED <<recovery, runs, initCallbacks, config, feedPos, changes, q, running,
                   last_applied_update_seq, counters, timer, errorEvents, history,
                   repositoryDb, saving, saved, call, result, throttle>>

\* feed.on('error' | 'inactive' | 'timeout' | 'retry'): the handler hands
\* the event to the repository and writes to the console
FeedEvent(event) ==
    /\ pc = "running"
    /\ feedState # "stopped"
    /\ Len(events) < MaxEvents
    /\ events' = Append(events, FeedEventRecord(event))
    /\ last' = Op("feed_" \o event, "none")
    /\ UNCHANGED <<recovery, pc, runs, initCallbacks, config, feedPos, changes, q, running,
                   last_applied_update_seq, counters, timer, errorEvents, history,
                   repositoryDb, saving, saved, call, result, throttle>>

\* one life of a process whose target and repository answer every request
\* without error, with the events of the feed
FeedNext ==
    \/ \E flag \in BOOLEAN, filt \in Filters, info \in {recovery, NoRec} :
           runs = 0 /\ Start(flag, filt, info)
    \/ \E kind \in Kinds : feedState = "active" /\ ChangeAdmitted(kind)
    \/ \E kind \in Kinds : feedState = "active" /\ ChangeTransformError(kind)
    \/ \E kind \in Kinds : feedState = "active" /\ ChangeRejected(kind)
    \/ FlushEmpty
    \/ FlushBuffer
    \/ WorkerStart
    \/ \E t \in running : BulkSuccess(t)
    \/ \E t \in running : SaveRead(t)
    \/ \E t \in running : SaveInsert(t)
    \/ \E event \in FeedEvents : FeedEvent(event)
    \/ pc = "running" /\ FeedStops

FeedSpec == Init /\ [][FeedNext]_vars

\* ------------------------------------------------------------- repository
\* this.taskId, the _id of the recovery record
TaskId == <<"task">>

\* a document that carries no _id, a document that carries no _rev
NoId == <<>>
NoRev == 0

\* arguments of the saves and of saveEvent
SaveSeqs == 1..2
SaveTimes == 1..2
EventTypes == {"start", "stop"}

\* the _id the database gives a document that came without one
GeneratedId(db) == <<"uuid", Cardinality(db) + 1>>

\* repositoryDb.get(id): the revision stored under id, NoRev standing for 404
StoredRev(db, id) ==
    IF \E r \in db : r._id = id
       THEN (CHOOSE r \in db : r._id = id)._rev
       ELSE NoRev

\* repositoryDb.insert(doc) as the database answers it: a document of a new
\* _id is created, a document of a known _id is replaced when doc carries
\* the stored revision and refused (409) otherwise
DbInsert(db, doc) ==
    LET id == IF doc._id = NoId THEN GeneratedId(db) ELSE doc._id
        old == {r \in db : r._id = id}
    IN  IF old = {}
           THEN [ok |-> TRUE, db |-> db \cup {[doc EXCEPT !._id = id, !._rev = 1]}]
           ELSE IF \E r \in old : r._rev = doc._rev
                   THEN [ok |-> TRUE,
                         db |-> (db \ old) \cup {[doc EXCEPT !._rev = doc._rev + 1]}]
                   ELSE [ok |-> FALSE, db |-> db]

\* variant: the record is built without an _id
recoveryRecordWithoutId(last_update_seq, last_change_applied, rev) ==
    [_id |-> NoId, _rev |-> rev, task_id |-> TaskId, record_type |-> "recovery",
     last_update_seq |-> last_update_seq, last_change_applied |-> last_change_applied]

\* the record the get callback builds; rev is body._rev, NoRev after a 404
recoveryRecord(last_update_seq, last_change_applied, rev) ==
    [_id |-> TaskId, _rev |-> rev, task_id |-> TaskId, record_type |-> "recovery",
     last_update_seq |-> last_update_seq, last_change_applied |-> last_change_applied]

\* the record saveEvent builds: it has no _id
eventRecord(event_type) ==
    [_id |-> NoId, _rev |-> NoRev, task_id |-> TaskId, record_type |-> "event",
     event_type |-> event_type]

\* saveRecoveryInfo(last_update_seq, last_change_applied, callback) of a
\* repository that is ready: the record is requested from the database
saveRecoveryInfo(last_update_seq, last_change_applied) ==
    /\ saving.at = "idle"
    /\ Len(saved) < MaxSaves
    /\ saving' = [at |-> "get", seq |-> last_update_seq, time |-> last_change_applied]
    /\ UNCHANGED <<service, events, call, result, throttle, repositoryDb, saved>>

\* the get callback without an error other than 404: the record is built,
\* with the stored revision when a record was found, and sent to the database
GetResponds ==
    /\ saving.at = "get"
    /\ saving' = [at |-> "insert",
                  doc |-> recoveryRecord(saving.seq, saving.time,
                                         StoredRev(repositoryDb, TaskId))]
    /\ UNCHANGED <<service, events, call, result, throttle, repositoryDb, saved>>

\* the get callback with an error other than 404
GetFails ==
    /\ saving.at = "get"
    /\ saving' = Idle("Recovery record could not be read")
    /\ UNCHANGED <<service, events, call, result, throttle, repositoryDb, saved>>

\* the database answers the insert: callback() when it stored the record,
\* callback(err) when it refused it
InsertResponds ==
    /\ saving.at = "insert"
    /\ LET answer == DbInsert(repositoryDb, saving.doc)
       IN  /\ repositoryDb' = answer.db
           /\ IF answer.ok
                 THEN /\ saving' = Idle("none")
                      /\ saved' = Append(saved, <<saving.doc.last_update_seq,
                                                  saving.doc.last_change_applied>>)
                 ELSE /\ saving' = Idle(IF saving.doc._rev = NoRev
                                           THEN "Recovery record could not be inserted"
                                           ELSE "Recovery record could not be updated")
                      /\ UNCHANGED saved
    /\ UNCHANGED <<service, events, call, result, throttle>>

\* the insert does not reach the database
InsertFails ==
    /\ saving.at = "insert"
    /\ saving' = Idle(IF saving.doc._rev = NoRev
                         THEN "Recovery record could not be inserted"
                         ELSE "Recovery record could not be updated")
    /\ UNCHANGED <<service, events, call, result, throttle, repositoryDb, saved>>

\* saveEvent(event_type, data, callback): an event record of the task is
\* inserted under an _id of the database's choice
saveEvent(event_type) ==
    /\ Cardinality({r \in repositoryDb : r.record_type = "event"}) < MaxEvents
    /\ repositoryDb' = DbInsert(repositoryDb, eventRecord(event_type)).db
    /\ UNCHANGED <<service, events, call, result, throttle, saving, saved>>

RepositoryNext ==
    \/ \E seq \in SaveSeqs, time \in SaveTimes : saveRecoveryInfo(seq, time)
    \/ GetResponds
    \/ GetFails
    \/ InsertResponds
    \/ InsertFails
    \/ \E e \in EventTypes : saveEvent(e)

RepositorySpec == Init /\ [][RepositoryNext]_vars

\* ------------------------------------------------- functions on their own
Calls ==
    {[fn |-> "applyClientFilter", filt |-> f, kind |-> k] :
        f \in ClientFilters, k \in ChangeArgs}
    \cup {[fn |-> "transform", routine |-> r, doc |-> d] : r \in Routines, d \in Docs}
    \cup {[fn |-> "isTrue", value |-> v] : v \in IsTrueArgs}
    \cup {[fn |-> "change", filt |-> f, kind |-> k] : f \in ClientFilters, k \in Kinds}
    \cup {[fn |-> "restart", env |-> e, info |-> i] :
             e \in EnvValues, i \in {NoRec} \cup (0..MaxSeq)}

\* any call with any arguments, the service not started
InitCall ==
    /\ call \in Calls
    /\ result = <<>>
    /\ queued = 0
    /\ feed_paused = FALSE
    /\ feedState = "active"
    /\ throttleLog = <<>>
    /\ lastCheck = Checked(0, "none", "active")
    /\ repositoryDb = {}
    /\ saving = Idle("none")
    /\ saved = <<>>
    /\ events = <<>>
    /\ recovery = NoRec
    /\ pc = "stopped"
    /\ runs = 0
    /\ initCallbacks = 0
    /\ restart = FALSE
    /\ clientFilter = "none"
    /\ recoveryInfo = NoRec
    /\ since = 0
    /\ feedPos = 0
    /\ changes = <<>>
    /\ q = <<>>
    /\ running = {}
    /\ last_applied_update_seq = 0
    /\ copied = 0
    /\ failed = 0
    /\ filtered = 0
    /\ delay_factor = 0
    /\ flush_interval = inactivity_check_interval
    /\ errorEvents = 0
    /\ last = Op("none", "none")
    /\ failedDocs = {}
    /\ transportFailed = {}
    /\ saves = 0
    /\ delivered = {}
    /\ deletedDocs = {}

\* filter.applyClientFilter(change)
CallApplyClientFilter ==
    /\ call.fn = "applyClientFilter" /\ result = <<>>
    /\ result' = <<applyClientFilter(call.filt, call.kind)>>
    /\ UNCHANGED <<call, service, throttle, repository>>

\* transformer.transform(doc, callback)
CallTransform ==
    /\ call.fn = "transform" /\ result = <<>>
    /\ result' = <<transform(call.routine, call.doc)>>
    /\ UNCHANGED <<call, service, throttle, repository>>

\* util.isTrue(value)
CallIsTrue ==
    /\ call.fn = "isTrue" /\ result = <<>>
    /\ result' = <<isTrue(call.value)>>
    /\ UNCHANGED <<call, service, throttle, repository>>

\* app.js: new R(source, target, isTrue(process.env.RESTART)), then init()
\* computes the sequence the feed is followed from
CallRestart ==
    /\ call.fn = "restart" /\ result = <<>>
    /\ result' = <<StartSequence(isTrue(call.env), call.info)>>
    /\ UNCHANGED <<call, service, throttle, repository>>

\* the change handler is invoked with one change
CallOnChange ==
    /\ call.fn = "change" /\ result = <<>>
    /\ result' = <<onChange(call.filt, call.kind)>>
    /\ UNCHANGED <<call, service, throttle, repository>>

NextCall ==
    \/ CallApplyClientFilter
    \/ CallTransform
    \/ CallIsTrue
    \/ CallRestart
    \/ CallOnChange

SpecCall == InitCall /\ [][NextCall]_vars

\* ---------------------------------------------------------------- properties
\* documents handed to the writer whose bulk write has not returned yet
QueuedDocs == UNION {Range(q[i]) : i \in 1..Len(q)}
InFlightDocs == UNION {Range(t.changes) : t \in {r \in running : r.phase = "bulk"}}

\* admitted documents of this run the target has not confirmed
Unconfirmed == failedDocs \cup Range(changes) \cup QueuedDocs \cup InFlightDocs

\* the batch whose bulk call returns in this step
BulkReturns(t) == t \in running /\ t.phase = "bulk" /\ t \notin running'

\* the worker is done with the batch in this step
BatchDone(t) == t \in running /\ \A r \in running' : r.changes # t.changes

\* the documents of the batch the target reported as failed in this step
NewlyFailed == failedDocs' \ failedDocs

\* C1: in every state of a first run (no document was confirmed by an earlier
\* run), the persisted checkpoint sequence is not greater than the sequence of
\* any admitted document whose write has not been confirmed: documents of a
\* failed batch and documents still buffered, queued or in flight
CheckpointBehindUnconfirmed ==
    runs = 1 => \A s \in Unconfirmed : ~(recovery > s)

\* C2: within one run every write of the recovery record stores a sequence
\* that is not lower than the one the previous write of the run stored
CheckpointNonDecreasing ==
    [][(saves > 0 /\ saves' = saves + 1) => recovery' >= recovery]_vars

TwoCheckpointsSaved == saves >= 2 /\ recovery >= 2

\* C3: a run started without the restart flag from a loaded recovery record
\* subscribes with since equal to the sequence the record holds at that time,
\* and the changes handed to the change handler are exactly those after it up
\* to the feed position: none above the checkpoint is skipped
ResumeFromCheckpoint ==
    (pc = "running" /\ ~restart /\ recoveryInfo # NoRec)
        => /\ since = recoveryInfo
           /\ last.op = "start" => since = recovery
           /\ delivered = (recoveryInfo + 1)..feedPos

ResumedAndDelivered ==
    pc = "running" /\ ~restart /\ recoveryInfo >= 1 /\ feedPos > since

\* C4 as stated: when a bulk write returns results of which at least one
\* failed and at least one succeeded, the recovery record holds the highest
\* sequence among the successes by the time the batch callback gets its error
PartialFailureSavesCheckpoint ==
    [][\A t \in running :
          (BulkReturns(t) /\ last'.op = "bulk_partial" /\ Range(t.changes) \ NewlyFailed # {})
              => /\ recovery' = Max(Range(t.changes) \ NewlyFailed)
                 /\ last'.cb = "error"]_vars

\* C4 amended: when a bulk write returns results of which at least one failed,
\* copied grows by the number of successes and failed by the number of
\* failures, one error event is recorded, the batch callback gets an error,
\* and neither the recovery record nor the last applied sequence changes
PartialFailureKeepsCheckpoint ==
    [][\A t \in running :
          (BulkReturns(t) /\ last'.op = "bulk_partial")
              => /\ recovery' = recovery
                 /\ saves' = saves
                 /\ last_applied_update_seq' = last_applied_update_seq
                 /\ copied' = copied + (Len(t.changes) - Cardinality(NewlyFailed))
                 /\ failed' = failed + Cardinality(NewlyFailed)
                 /\ errorEvents' = errorEvents + 1
                 /\ running' = running \ {t}
                 /\ last'.cb = "error"]_vars

\* batch [seq 1, seq 2], the first stored and the second rejected
FirstStoredSecondFailed ==
    /\ last.op = "bulk_partial"
    /\ copied = 1 /\ failed = 1
    /\ failedDocs = {2}
    /\ delivered = {1, 2}
    /\ recovery = NoRec

\* C5: a run started without the restart flag subscribes at a sequence at or
\* before every document of a batch that an earlier bulk call failed for
ResumeBeforeFailedBatch ==
    [][(pc = "stopped" /\ pc' = "running" /\ ~restart')
          => \A s \in transportFailed : since' <= s]_vars

\* C6: a bulk call that fails as a whole leaves the recovery record, the last
\* applied sequence and copied unchanged, adds the batch size to failed,
\* records one error event and hands an error to the batch callback
BulkErrorEffects ==
    [][\A t \in running :
          (BulkReturns(t) /\ last'.op = "bulk_error")
              => /\ recovery' = recovery
                 /\ saves' = saves
                 /\ last_applied_update_seq' = last_applied_update_seq
                 /\ copied' = copied
                 /\ failed' = failed + Len(t.changes)
                 /\ errorEvents' = errorEvents + 1
                 /\ last'.cb = "error"]_vars

FullBatchFailedAfterSave ==
    last.op = "bulk_error" /\ failed = changes_per_batch /\ saves >= 1

\* C7: when every document was stored but saving the recovery record fails
\* (read error, insert error or conflict), the batch callback gets an error and
\* the recovery record keeps its previous value
SaveFailureReported ==
    [][\A t \in running :
          (t.phase \in {"get", "insert"} /\ BatchDone(t) /\ pc' = "running"
           /\ saves' = saves)
              => /\ last'.op \in {"save_read_error", "save_insert_error"}
                 /\ last'.cb = "error"
                 /\ recovery' = recovery]_vars

SaveFailedAfterEarlierSave ==
    last.op = "save_insert_error" /\ saves >= 1 /\ copied >= 2

\* C8: at most one batch is being processed: no bulk write starts before the
\* bulk write and the recovery record update of the previous batch completed
SingleBatchInProcess ==
    Cardinality(running) <= 1

BatchWaitsForSave ==
    /\ \E t \in running : t.phase = "insert"
    /\ Len(q) >= 1

\* C9: every batch handed to the writer, by the change handler or by the flush
\* timer, holds at most 500 documents (2 at the scale of this model)
BatchSizeBounded ==
    \A b \in Range(q) \cup {t.changes : t \in running} : Len(b) <= 2

FlushedAndFullBatch ==
    /\ \E t \in running : Len(t.changes) = 1
    /\ \E i \in 1..Len(q) : Len(q[i]) = 2

\* C10: the delay factor is at most 6 and the armed flush interval never
\* exceeds 64 times the base interval
BackoffBounded ==
    /\ delay_factor <= 6
    /\ flush_interval <= inactivity_check_interval * 64

\* C11: while the process lives, every document in the staging buffer is
\* eventually in a batch handed to the queue of the writer, whether or not a
\* further change arrives (the flush timer keeps firing, every bulk write and
\* every recovery record update completes)
BufferedEventuallyHandedOver ==
    \A s \in 1..MaxSeq :
        (s \in Range(changes)) ~> (s \in QueuedDocs \/ pc = "stopped")

FlushedByTimer ==
    /\ last.op = "flush_push"
    /\ feedPos = MaxSeq
    /\ Len(q) = 1 /\ Len(q[1]) = 1

\* C12: applyClientFilter returns false for a missing change and for a change
\* without doc, true for a change with doc when no client filter is set, and
\* otherwise the very value the filter routine returns for the change
ClientFilterReturnsRoutineValue ==
    (call.fn = "applyClientFilter" /\ result # <<>>)
        => /\ call.kind \in {"null", "nodoc"} => result[1] = "false"
           /\ (call.kind \in {"doc", "deleted"} /\ call.filt = "none")
                  => result[1] = "true"
           /\ (call.kind \in {"doc", "deleted"} /\ call.filt # "none"
                  /\ ~FilterThrows(call.filt, call.kind))
                  => result[1] = ClientFilterRoutine(call.filt, call.kind)

NumericFilterValueReturned ==
    /\ call = [fn |-> "applyClientFilter", filt |-> "numeric", kind |-> "doc"]
    /\ result = <<"1">>

\* C16: without a transformation routine the callback of transform gets a
\* null error and the document that was passed in, null included
NoRoutineReturnsSameDocument ==
    (call.fn = "transform" /\ call.routine = "none" /\ result # <<>>)
        => result[1] = [err |-> "null", doc |-> call.doc]

NullInNullOut ==
    /\ call = [fn |-> "transform", routine |-> "none", doc |-> JSNull]
    /\ result = <<[err |-> "null", doc |-> JSNull]>>

\* C19: with RESTART set to the string 'true' the feed is followed from
\* sequence 0, whatever recovery record is loaded
RestartTrueFetchesAll ==
    (call.fn = "restart" /\ call.env = "'true'" /\ result # <<>>)
        => result[1] = 0

\* the change handler ran in this step and the filter routine threw
FilterErrorStep == last'.cb = "filter_error" /\ feedPos' # feedPos

FilterErrorEndsService ==
    last.cb = "filter_error" => pc = "stopped"

\* C15: a step in which the transformation routine throws ends the process
\* with nothing buffered, queued or in a worker, and from then on nothing
\* happens until a new process is started
TransformErrorEndsService ==
    /\ [][(pc = "running" /\ last'.op = "transform_error")
            => /\ pc' = "stopped"
               /\ changes' = <<>> /\ q' = <<>> /\ running' = {}]_vars
    /\ [][last.op = "transform_error" => last'.op \in {"start", "init_error"}]_vars

TransformErrorAfterProgress ==
    /\ last.op = "transform_error"
    /\ pc = "stopped"
    /\ runs = 1
    /\ recovery >= 2

\* C17: a run started with the restart flag follows the feed from sequence 0
\* whatever the recovery record holds
RestartIgnoresCheckpoint ==
    (pc = "running" /\ restart) => since = 0

RestartedOverCheckpoint ==
    /\ last.op = "start"
    /\ restart
    /\ recoveryInfo >= 1

\* C18: a run started without the restart flag while a recovery record exists
\* follows the feed from the sequence the record holds, also when reading the
\* record failed
ResumeWheneverRecordExists ==
    (last.op = "start" /\ ~restart /\ recovery # NoRec) => since = recovery

\* C20: no batch the target stored holds a change with the deletion flag
DeletedNeverWritten ==
    \A t \in running :
        t.phase \in {"get", "insert"} => Range(t.changes) \cap deletedDocs = {}

\* C20 (as the code has it): while the client filter that ignores deleted
\* documents is set, no change with the deletion flag is in the buffer, in a
\* queued batch or in a batch a worker writes
DeletedRejectedByFilter ==
    clientFilter = "ignore_deleted" => deletedDocs = {}

DeletedSkippedOthersWritten ==
    /\ clientFilter = "ignore_deleted"
    /\ filtered = 1
    /\ \E t \in running : t.phase = "get" /\ t.changes = <<1, 3>>

\* C24: when init finds a configuration error it reports it and the process
\* ends without ever having followed the feed: nothing is buffered, queued or
\* written, the recovery record is untouched, and nothing happens until the
\* service is started again
InitErrorNeverFollows ==
    /\ [](last.op = "init_error"
            => /\ pc = "stopped"
               /\ feedPos = 0 /\ delivered = {}
               /\ changes = <<>> /\ q = <<>> /\ running = {})
    /\ [][last'.op = "init_error" => recovery' = recovery]_vars
    /\ [][last.op = "init_error" => last'.op \in {"start", "init_error"}]_vars

FilterRejectedAtStartup ==
    /\ last = Op("init_error", "filter")
    /\ recovery >= 2

\* C21: feed 1 (A), 2 (B, deleted), 3 (C) from sequence 0 with the filter
\* that ignores deleted documents: when C is admitted behind A, with B
\* filtered, the batch handed to the queue is exactly <<1, 3>>; when the
\* target stored both, sequence 3 is handed to saveRecoveryInfo and is what
\* the recovery record holds after the update
CleanRunCheckpoint ==
    /\ [][(/\ clientFilter = "ignore_deleted" /\ since = 0
            /\ changes = <<1>> /\ feedPos = 2 /\ filtered = 1 /\ q = <<>>
            /\ feedPos' = 3 /\ filtered' = filtered /\ pc' = "running")
            => (q' = << <<1, 3>> >> /\ changes' = <<>>)]_vars
    /\ [][\A t \in running :
            (t.changes = <<1, 3>> /\ t.phase = "bulk" /\ last'.op = "bulk_success")
                => Task(<<1, 3>>, "get", 3) \in running']_vars
    /\ [][\A t \in running :
            (t.changes = <<1, 3>> /\ last'.op = "save_insert") => recovery' = 3]_vars

CleanRunBatchStored ==
    /\ clientFilter = "ignore_deleted"
    /\ since = 0 /\ feedPos = 3 /\ filtered = 1 /\ copied = 2
    /\ Task(<<1, 3>>, "insert", 3) \in running

\* the throttle check ran in this step
CheckStep == lastCheck' # lastCheck \/ throttleLog' # throttleLog

\* C22: right after a throttle check the paused flag is set exactly when
\* more than max_queued_batches batches wait; pause() is called only by a check
\* that finds the feed not paused, resume() only by one that finds it paused,
\* so the calls alternate and the first one is pause()
ThrottleFollowsQueue ==
    /\ [][CheckStep => (feed_paused' <=> queued > max_queued_batches)]_vars
    /\ [](\A i \in 1..Len(throttleLog) :
             throttleLog[i] = IF i % 2 = 1 THEN "pause" ELSE "resume")
    /\ [](feed_paused <=> Len(throttleLog) % 2 = 1)
    /\ [][(CheckStep /\ feed_paused' = feed_paused) => throttleLog' = throttleLog]_vars

PausedResumedPausedAgain ==
    /\ throttleLog = <<"pause", "resume", "pause">>
    /\ lastCheck = Checked(3, "pause", "active")
    /\ feedState = "paused"

\* C23: while the paused flag is set the feed changes state only by going
\* back to active, and no throttle check calls pause() or resume() on a feed
\* that has stopped
PausedOnlyBackToActive ==
    /\ [][(feed_paused /\ feedState' # feedState) => feedState' = "active"]_vars
    /\ [](lastCheck.call # "none" => lastCheck.feed # "stopped")

\* the flush timer fired in this step
FlushStep == last'.op \in {"flush_backoff", "flush_empty", "flush_push", "flush_busy"}

\* C26: a flush that finds the buffer non-empty or the queue busy sets the
\* delay factor to 0 and rearms the timer at the base interval, and it hands
\* the buffer to the queue exactly when the queue is idle
FlushResetsWhenBusyOrBuffered ==
    [][(FlushStep /\ (changes # <<>> \/ ~QIdle))
        => /\ delay_factor' = 0
           /\ flush_interval' = inactivity_check_interval
           /\ (q' # q) <=> QIdle]_vars

\* C26 (as the code has it): a flush that finds the buffer non-empty sets the
\* delay factor to 0, rearms the timer at the base interval and hands the
\* buffer to the queue exactly when the queue is idle; a flush that finds the
\* buffer empty and the queue busy leaves factor, timer, buffer and queue alone
FlushResetsWhenBuffered ==
    [][FlushStep
        => /\ changes # <<>>
                => /\ delay_factor' = 0
                   /\ flush_interval' = inactivity_check_interval
                   /\ (q' # q) <=> QIdle
                   /\ QIdle => (q' = <<changes>> /\ changes' = <<>>)
           /\ (changes = <<>> /\ ~QIdle) => UNCHANGED <<timer, q, changes>>]_vars

FlushFoundBusyAfterBackoff ==
    /\ last.op = "flush_empty"
    /\ changes = <<>>
    /\ ~QIdle
    /\ delay_factor >= 1

\* C27: the change handler stamps last_change_received for every change it
\* is invoked with, also for one the client filter rejects
EveryChangeStamped ==
    (call.fn = "change" /\ result # <<>>) => result[1].stamped

\* C28: when the bulk call returns one result per document, failed grows by
\* the number of documents reported as not stored, copied by the number of the
\* others, and so copied + failed grows by the size of the batch
PerDocumentCounting ==
    [][\A t \in running :
        (t.phase = "bulk" /\ last'.op \in {"bulk_partial", "bulk_success"})
            => /\ failed' - failed = Cardinality(NewlyFailed)
               /\ copied' - copied = Len(t.changes) - Cardinality(NewlyFailed)
               /\ (copied' + failed') - (copied + failed) = Len(t.changes)]_vars

OneStoredOneFailed ==
    /\ last.op = "bulk_partial"
    /\ since = 0 /\ feedPos = 2 /\ filtered = 0
    /\ last_applied_update_seq = 0
    /\ copied = 1 /\ failed = 1

\* documents of the batches a worker holds, in any phase
WorkerDocs == UNION {Range(t.changes) : t \in running}

\* C29: within the life of a process a document of a failed batch is never
\* again in the buffer, in the queue or in a worker (one attempt, no retry),
\* and every batch that waits in the queue after a failure is eventually
\* taken by a worker unless the process ends
FailedBatchNotRetried ==
    /\ [](failedDocs \cap (Range(changes) \cup QueuedDocs \cup WorkerDocs) = {})
    /\ \A s \in 1..MaxSeq :
          (failedDocs # {} /\ s \in QueuedDocs)
              ~> (s \in InFlightDocs \/ pc = "stopped")

BatchTakenAfterFailure ==
    /\ last.op = "worker_start"
    /\ failedDocs = {1, 2}
    /\ InFlightDocs = {3, 4}

\* the sequences of a batch grow from each document to the next
Increasing(b) == \A i, j \in 1..Len(b) : i < j => b[i] < b[j]

\* C30: the buffer and every batch, queued or in a worker, hold their
\* documents in the order the changes were received: as the feed delivers
\* increasing sequences, the sequences of each batch are increasing
BatchInReceiptOrder ==
    /\ Increasing(changes)
    /\ \A i \in 1..Len(q) : Increasing(q[i])
    /\ \A t \in running : Increasing(t.changes)

SecondAndFourthBatched ==
    /\ filtered = 2
    /\ q = << <<2, 4>> >>

\* the recovery records of the task, and a record without its revision
RecoveryRecords == {r \in repositoryDb : r.record_type = "recovery" /\ r.task_id = TaskId}
Content(r) == [last_update_seq |-> r.last_update_seq,
               last_change_applied |-> r.last_change_applied,
               _id |-> r._id, task_id |-> r.task_id, record_type |-> r.record_type]

\* a save stores its record in this step
SaveStored == saving.at = "insert" /\ Len(saved') = Len(saved) + 1

\* C25: the repository never holds more than one recovery record of the
\* task; a save that finds none creates it under the task identifier, a
\* later save replaces that record and carries the revision stored; a save
\* of the (sequence, timestamp) saved last leaves the record's content,
\* revision aside, as it was
OneRecoveryRecordUpserted ==
    /\ [](Cardinality(RecoveryRecords) <= 1)
    /\ [][SaveStored /\ RecoveryRecords = {} =>
            \E r \in RecoveryRecords' :
                /\ RecoveryRecords' = {r}
                /\ r._id = TaskId
                /\ saving.doc._rev = NoRev]_vars
    /\ [][SaveStored /\ RecoveryRecords # {} =>
            \E old \in RecoveryRecords, r \in RecoveryRecords' :
                /\ RecoveryRecords' = {r}
                /\ r._id = old._id
                /\ saving.doc._rev = old._rev
                /\ r._rev = old._rev + 1]_vars
    /\ [][SaveStored /\ saved # <<>> /\ saved'[Len(saved')] = saved[Len(saved)] =>
            {Content(r) : r \in RecoveryRecords'} = {Content(r) : r \in RecoveryRecords}]_vars

SameCheckpointSavedTwice ==
    /\ Len(saved) = 2
    /\ saved[1] = saved[2]
    /\ \E r \in RecoveryRecords : r._rev = 2
    /\ \E r \in repositoryDb : r.record_type = "event"

\* C35: the callback handed to init is invoked once for an init call at
\* most: once init has reported success, no later event invokes it again
InitCallbackOnce ==
    initCallbacks <= 1

\* the change handler met a rejected change without doc in this step
NoDocStep == pc = "running" /\ last'.op = "change_nodoc"

\* C40: handling a change that is rejected because it has no doc completes:
\* the process keeps running, filtered grows by one, and buffer, queue and
\* recovery record are left as they were
NoDocRejectionCompletes ==
    [][NoDocStep
        => /\ pc' = "running"
           /\ filtered' = filtered + 1
           /\ UNCHANGED <<changes, q, recovery>>]_vars

\* the change handler took a change in this step and the process lives on
ChangeStep == pc = "running" /\ pc' = "running" /\ feedPos' = feedPos + 1

\* C33: filtered counts the changes applyClientFilter rejected: a change
\* that enters neither buffer nor queue adds one to it, an admitted change
\* and every other handler leave it alone; it never exceeds the number of
\* changes received and stays 0 while no client filter is set
FilteredCountsRejections ==
    /\ [][ChangeStep
            => filtered' - filtered =
                   IF <<changes', q'>> = <<changes, q>> THEN 1 ELSE 0]_vars
    /\ [][(pc = "running" /\ pc' = "running" /\ feedPos' = feedPos)
            => filtered' = filtered]_vars
    /\ [](filtered <= Cardinality(delivered))
    /\ []((pc = "running" /\ clientFilter = "none") => filtered = 0)

TwoRejectedTwoCopied ==
    /\ clientFilter = "ignore_deleted"
    /\ filtered = 2
    /\ copied = 2

\* changes the handler was invoked with in this run
Received == Cardinality(delivered)

\* C34 as stated: the changes received are those filtered, those in the
\* buffer, those in batches that wait for or are held by a worker, and
\* those counted as copied or failed
ConservationWithWorkerBatches ==
    pc = "running" =>
        Received = filtered + Len(changes) + Cardinality(QueuedDocs)
                   + Cardinality(WorkerDocs) + copied + failed

\* C34 (as the code has it): the changes received are those filtered, those
\* in the buffer, those in batches that wait in the queue or whose bulk
\* write has not returned, and those counted as copied or failed; a batch
\* whose recovery record is being saved is counted as copied already
ConservationOfChanges ==
    pc = "running" =>
        Received = filtered + Len(changes) + Cardinality(QueuedDocs)
                   + Cardinality(InFlightDocs) + copied + failed

SavingWhileOthersWait ==
    /\ \E t \in running : t.phase = "get"
    /\ filtered = 1
    /\ copied = 2
    /\ Len(changes) = 1

\* what the recovery record of this run holds, the start sequence before
\* the run saved one
PersistedOrStart == IF saves > 0 THEN recovery ELSE since

\* no saveRecoveryInfo call is waiting for its callback
NoSaveInFlight == \A t \in running : t.phase = "bulk"

\* a saveRecoveryInfo call ends with an error in this step
SaveFails(t) ==
    /\ t.phase \in {"get", "insert"}
    /\ BatchDone(t)
    /\ pc' = "running"
    /\ saves' = saves

\* C36 as stated: while no save of the recovery record is in flight, the
\* last applied sequence of the status is the sequence the recovery record
\* holds, the start sequence when the run saved none
ReportedEqualsPersisted ==
    (pc = "running" /\ NoSaveInFlight) => last_applied_update_seq = PersistedOrStart

\* C36 (as the code has it): the last applied sequence is set when the
\* bulk write returned, before the save: a save that succeeds makes the
\* recovery record equal to it, a save that fails leaves it ahead of the
\* recovery record, and it is never behind the record
ReportedNotBehindPersisted ==
    /\ []((pc = "running" /\ NoSaveInFlight)
             => last_applied_update_seq >= PersistedOrStart)
    /\ [][\A t \in running :
            SaveFails(t) => /\ last_applied_update_seq' = last_applied_update_seq
                            /\ recovery' = recovery
                            /\ last_applied_update_seq' > PersistedOrStart]_vars
    /\ [][(pc = "running" /\ saves' = saves + 1)
            => recovery' = last_applied_update_seq']_vars

ReportedAheadAfterFailedRead ==
    /\ last.op = "save_read_error"
    /\ saves = 1
    /\ recovery = 2
    /\ last_applied_update_seq = 4

\* C37 as stated: in a run started with the restart flag that found a
\* recovery record, the record never holds a sequence below the one found
RestartKeepsCheckpoint ==
    (pc = "running" /\ restart /\ recoveryInfo # NoRec) => recovery >= recoveryInfo

\* C37 (as the code has it): in a run started with the restart flag every
\* save overwrites the recovery record with the last sequence of the batch
\* just stored, a change of this run counted from 0, whatever the record
\* held; from the second save of the run on the sequence does not decrease
RestartOverwritesCheckpoint ==
    /\ [][(pc = "running" /\ restart /\ saves' = saves + 1)
            => /\ recovery' = last_applied_update_seq
               /\ recovery' \in delivered]_vars
    /\ [][(pc = "running" /\ restart /\ saves > 0 /\ saves' = saves + 1)
            => recovery' >= recovery]_vars

CheckpointLoweredByRestart ==
    /\ restart
    /\ recoveryInfo = 4
    /\ saves = 1
    /\ recovery = 2

\* every sequence of A is below every sequence of B
AllBefore(A, B) == \A a \in A, b \in B : a < b

\* a worker took a batch in this step
TakenBatches == {t \in running' : t.phase = "bulk" /\ t \notin running}

\* C38: a worker always takes the batch that was pushed first, so the
\* documents a worker holds were received before all documents that wait
\* in the queue, the batches of the queue are in the order of receipt, and
\* the buffer holds the documents received last
BatchesWrittenInOrder ==
    /\ [][(pc' = "running" /\ TakenBatches # {})
            => /\ TakenBatches = {Task(Head(q), "bulk", 0)}
               /\ q' = Tail(q)]_vars
    /\ [](AllBefore(WorkerDocs, QueuedDocs \cup Range(changes)))
    /\ [](AllBefore(QueuedDocs, Range(changes)))
    /\ [](\A i, j \in 1..Len(q) : i < j => AllBefore(Range(q[i]), Range(q[j])))

FirstBatchTakenSecondWaits ==
    /\ last.op = "worker_start"
    /\ WorkerDocs = {1, 2}
    /\ q = << <<3, 4>> >>

\* batches with fewer than changes_per_batch documents that wait in the
\* queue, and those a worker holds
PartialWaiting == {i \in 1..Len(q) : Len(q[i]) < changes_per_batch}
PartialInWorker == {t \in running : Len(t.changes) < changes_per_batch}

\* C39: no batch in the queue or in a worker is empty, and at most one of
\* them holds fewer than changes_per_batch documents
OnePartialBatchAtMost ==
    /\ \A i \in 1..Len(q) : Len(q[i]) >= 1
    /\ \A t \in running : Len(t.changes) >= 1
    /\ Cardinality(PartialWaiting) + Cardinality(PartialInWorker) <= 1

PartialSavedWhileFullWaits ==
    /\ \E t \in running : t.changes = <<1>> /\ t.phase = "insert"
    /\ q = << <<2, 3>> >>

\* a handler of a feed event other than 'change' and 'stop' ran in this step
FeedEventStep ==
    /\ events' # events
    /\ events'[Len(events')].type # "source_feed_stopped"

\* C31: the handler of a feed error, inactivity, timeout or retry event
\* hands exactly one event to the repository and leaves the process running
\* with buffer, queue, workers, paused flag, counters, recovery record, last
\* applied sequence, feed position and flush timer as they were, and the
\* next change with a document can be admitted after it
FeedEventOnlyRecorded ==
    /\ [][FeedEventStep
            => /\ Len(events') = Len(events) + 1
               /\ SubSeq(events', 1, Len(events)) = events
               /\ events'[Len(events')] \in {FeedEventRecord(e) : e \in FeedEvents}
               /\ pc' = "running"
               /\ UNCHANGED <<changes, q, running, feed_paused, feedState, counters,
                              recovery, last_applied_update_seq, feedPos, timer,
                              errorEvents>>]_vars
    /\ []((last.op \in {"feed_" \o e : e \in FeedEvents} /\ feedPos < MaxSeq)
             => ENABLED ChangeAdmitted("doc"))

ChangeBatchedAfterTimeout ==
    /\ events = <<Recorded("saveErrorEvent", "source_feed_timeout")>>
    /\ last.op = "change_push"
    /\ copied = 2
    /\ delay_factor = 1

\* C32: when a transformation error ends the process, a stop event has been
\* handed to the repository
StopEventBeforeExit ==
    [][(pc = "running" /\ pc' = "stopped" /\ last'.op = "transform_error")
        => \E i \in 1..Len(events') : events'[i].type = "source_feed_stopped"]_vars

====
